---- MODULE Spec2Model ----
(***************************************************************************)
(* Application form submission: the zod application schema, the Supabase   *)
(* persistence functions (submitApplicationForm, submitApplication,        *)
(* saveDraft, getUserApplications, getApplicationById) and the Firestore   *)
(* hook useApplicationSubmit.                                              *)
(*                                                                         *)
(* Strings are sequences of one-character strings, so that the length and  *)
(* character-class rules of the schema are computed rather than assumed.   *)
(* A form field is a record [t, v]: t = "string" with the characters v, or *)
(* t = "undefined" for a field the form does not carry.                    *)
(***************************************************************************)
EXTENDS Integers, Sequences, FiniteSets, TLC

\* ------------------------------------------------------------------ bounds
MaxRows == 2
MaxDocs == 2
MaxInFlight == 2

\* --------------------------------------------------------------- characters
LowerChars == {"a", "b", "i", "l", "o", "x"}
UpperChars == {"A", "L"}
LetterChars == LowerChars \cup UpperChars
NonZeroDigits == {"1", "2"}
DigitChars == NonZeroDigits \cup {"0"}
SpaceChars == {" "}

Str(s) == [t |-> "string", v |-> s]
Undefined == [t |-> "undefined", v |-> <<>>]

AllIn(s, class) == \A i \in 1..Len(s) : s[i] \in class
NoneIn(s, class) == \A i \in 1..Len(s) : s[i] \notin class

RECURSIVE Rep(_, _)
Rep(c, n) == IF n = 0 THEN <<>> ELSE <<c>> \o Rep(c, n - 1)

\* String.prototype.toLowerCase on the characters of the model.
LowerOf(c) == IF c = "A" THEN "a" ELSE IF c = "L" THEN "l" ELSE c
toLowerCase(s) == [i \in 1..Len(s) |-> LowerOf(s[i])]

\* String.prototype.trim: drop leading and trailing white space.
RECURSIVE trimStart(_)
trimStart(s) ==
    IF s # <<>> /\ Head(s) \in SpaceChars THEN trimStart(Tail(s)) ELSE s
RECURSIVE trimEnd(_)
trimEnd(s) ==
    IF s # <<>> /\ s[Len(s)] \in SpaceChars
    THEN trimEnd(SubSeq(s, 1, Len(s) - 1)) ELSE s
trim(s) == trimEnd(trimStart(s))

\* ------------------------------------------------------- the zod schema
\* A parse result is [status, issues]: status "valid", "dirty" (a check of a
\* well-typed value failed; parsing goes on) or "aborted" (the value has the
\* wrong type or is no member of the enum; zod returns INVALID), and the set
\* of paths that carry an issue.
NameMin == 2
NameMax == 50
PhoneMaxMore == 14

Ok == [status |-> "valid", issues |-> {}]
Fail(st, path) == [status |-> st, issues |-> {path}]

\* /^[a-zA-Z\s]*$/
NameRegex(s) == AllIn(s, LetterChars \cup SpaceChars)

\* z.string().min(2).max(50).regex(...)
nameField(x, path) ==
    IF x.t # "string" THEN Fail("aborted", path)
    ELSE IF Len(x.v) >= NameMin /\ Len(x.v) <= NameMax /\ NameRegex(x.v)
         THEN Ok ELSE Fail("dirty", path)

\* zod's email pattern:
\* /^(?!\.)(?!.*\.\.)([A-Z0-9_'+\-\.]*)[A-Z0-9_+-]@([A-Z0-9][A-Z0-9\-]*\.)+[A-Z]{2,}$/i
AlnumChars == LetterChars \cup DigitChars
LocalChars == AlnumChars \cup {"_", "'", "+", "-", "."}
LocalEndChars == AlnumChars \cup {"_", "+", "-"}
NoDoubleDot(s) == \A i \in 1..(Len(s) - 1) : ~(s[i] = "." /\ s[i + 1] = ".")
ZodDomain(d) ==
    \E k \in 2..Len(d) :
        /\ d[k] = "."
        /\ Len(d) - k >= 2
        /\ AllIn(SubSeq(d, k + 1, Len(d)), LetterChars)
        /\ d[1] \in AlnumChars
        /\ AllIn(SubSeq(d, 1, k), AlnumChars \cup {"-", "."})
        /\ \A i \in 1..(k - 1) : d[i] = "." => d[i + 1] \in AlnumChars
ZodEmail(s) ==
    /\ s # <<>>
    /\ s[1] # "."
    /\ NoDoubleDot(s)
    /\ \E at \in 2..Len(s) :
          /\ s[at] = "@"
          /\ AllIn(SubSeq(s, 1, at - 1), LocalChars)
          /\ s[at - 1] \in LocalEndChars
          /\ ZodDomain(SubSeq(s, at + 1, Len(s)))

\* z.string().email(...)
emailField(x, path) ==
    IF x.t # "string" THEN Fail("aborted", path)
    ELSE IF ZodEmail(x.v) THEN Ok ELSE Fail("dirty", path)

\* z.string().email(...).refine(email => email !== '', ...): the refinement
\* runs on a string whether or not the email check passed.
refereeEmailField(x, path) ==
    IF x.t # "string" THEN Fail("aborted", path)
    ELSE IF ZodEmail(x.v) /\ x.v # <<>> THEN Ok ELSE Fail("dirty", path)

\* /^\+[1-9]\d{1,14}$/
PhoneRegexE164(s) ==
    /\ Len(s) >= 3
    /\ Len(s) <= 2 + PhoneMaxMore
    /\ s[1] = "+"
    /\ s[2] \in NonZeroDigits
    /\ AllIn(SubSeq(s, 3, Len(s)), DigitChars)

phoneField(x, path) ==
    IF x.t # "string" THEN Fail("aborted", path)
    ELSE IF PhoneRegexE164(x.v) THEN Ok ELSE Fail("dirty", path)

\* z.enum(['male', 'female', 'other']); the value is a plain string here.
GenderEnum == {"male", "female", "other"}
genderField(g, path) == IF g \in GenderEnum THEN Ok ELSE Fail("aborted", path)

\* ParseStatus.mergeObjectSync: aborted if any member is aborted, else dirty
\* if any member is dirty; the issues of all members are kept.
mergeObject(results) ==
    [status |-> IF \E r \in results : r.status = "aborted" THEN "aborted"
                ELSE IF \E r \in results : r.status = "dirty" THEN "dirty"
                ELSE "valid",
     issues |-> UNION {r.issues : r \in results}]

personalInfoSchema(p) ==
    mergeObject({nameField(p.firstName, "personalInfo.firstName"),
                 nameField(p.lastName, "personalInfo.lastName"),
                 emailField(p.email, "personalInfo.email"),
                 phoneField(p.phone, "personalInfo.phone"),
                 genderField(p.gender, "personalInfo.gender")})

refereeSchema(r) ==
    mergeObject({nameField(r.name, "referee.name"),
                 refereeEmailField(r.email, "referee.email")})

\* .refine(data => data.referee.email !== data.personalInfo.email,
\*         {path: ['referee', 'email']})
AlwaysDiffers(data) == TRUE
RefereeEmailDiffers(data) == data.referee.email # data.personalInfo.email

\* z.object({...}).refine(...): ZodEffects runs the refinement only when the
\* inner object is not aborted.  The result is {success, issues}.
applicationSchema(data) ==
    LET inner == mergeObject({personalInfoSchema(data.personalInfo),
                              refereeSchema(data.referee)})
    IN  IF inner.status = "aborted"
        THEN [success |-> FALSE, issues |-> inner.issues]
        ELSE IF RefereeEmailDiffers(data)
             THEN [success |-> inner.status = "valid", issues |-> inner.issues]
             ELSE [success |-> FALSE,
                   issues |-> inner.issues \cup {"referee.email"}]

\* ------------------------------------------------------------ form values
S_Al == <<"A", "l">>
S_mailA == <<"a", "@", "b", ".", "i", "o">>
S_mailX == <<"x", "@", "b", ".", "i", "o">>
S_mailUpper == <<"A", "@", "b", ".", "i", "o">>
S_mailShortTld == <<"a", "@", "b", ".", "i">>
S_phone == <<"+", "1", "2">>
S_phoneNoPlus == <<"1", "2">>

NameValues == {Str(S_Al), Str(<<"A">>), Str(<<"A", "1">>),
               Str(Rep("a", NameMax + 1)), Str(<<>>), Undefined}
EmailValues == {Str(S_mailA), Str(S_mailX), Str(S_mailUpper),
                Str(S_mailShortTld), Str(<<>>), Undefined}
PhoneValues == {Str(S_phone), Str(S_phoneNoPlus), Str(<<"+", "0", "1">>),
                Undefined}
GenderValues == {"male", ""}

\* ApplicationFormData, restricted to the fields the rules above read.
Forms ==
    [personalInfo : [firstName : NameValues, lastName : {Str(S_Al)},
                     email : EmailValues, phone : PhoneValues,
                     gender : GenderValues],
     referee : [name : {Str(S_Al), Undefined}, email : EmailValues]]

Form(first, mail, phone, refMail) ==
    [personalInfo |-> [firstName |-> Str(first), lastName |-> Str(S_Al),
                       email |-> Str(mail), phone |-> Str(phone),
                       gender |-> "male"],
     referee |-> [name |-> Str(S_Al), email |-> Str(refMail)]]

\* The forms the submit operations are called with: a valid one, one whose
\* referee email is the applicant's, one whose phone has no "+", and one
\* without a first name.
FormValid == Form(S_Al, S_mailA, S_phone, S_mailX)
FormSameEmail == Form(<<"A", "l", " ">>, S_mailUpper, S_phone, S_mailUpper)
FormPhoneNoPlus == Form(S_Al, S_mailA, S_phoneNoPlus, S_mailX)
FormNoFirstName == Form(<<>>, S_mailA, S_phone, S_mailX)
SubmitForms == {FormValid, FormSameEmail, FormPhoneNoPlus, FormNoFirstName}
\* The hook reads nothing of the form before it writes; two forms stand for all.
HookForms == {FormValid, FormSameEmail}

\* Partial<ApplicationFormData> for drafts: a section may be missing.
NoSection == [t |-> "undefined"]
EmptyObject == [t |-> "object"]
DraftForms ==
    {[personalInfo |-> NoSection, referee |-> NoSection],
     [personalInfo |-> FormValid.personalInfo, referee |-> NoSection]}

\* ---------------------------------------------------------------- identity
Users == {"u1", "u2"}
NoUser == "null"
NoId == 0

\* ------------------------------------------------------------ remote errors
\* A PostgREST error {code, message}.  The store is opaque: the code and the
\* text are whatever the server sends (a trigger may raise any text under
\* any code), so the two are drawn independently.
ErrorCodes == {"23505", "08006"}
ErrorMessages == {"application already exists", "connection failure"}
RemoteErrors == [code : ErrorCodes, message : ErrorMessages]
NoRowsError == [code |-> "PGRST116", message |-> "no rows returned"]
NoCode == ""

VARIABLES
    user,               \* the identity provider's current user, or NoUser
    rows,               \* Supabase table applications; a row's id is its index
    applications,       \* Firestore collection applications; id = index
    userApplications,   \* Firestore documents under users/{uid}/applications
    isSubmitting,       \* useApplicationSubmit state
    error,              \* useApplicationSubmit state: NoError or a message
    calls,              \* handleSubmit invocations in flight, by slot
    last,               \* the call that ended last, and what it did
    form,               \* schema check: the record under validation
    parsed              \* schema check: applicationSchema's result, or NotParsed

vars == <<user, rows, applications, userApplications, isSubmitting, error,
          calls, last, form, parsed>>

NoError == "null"
NotParsed == [success |-> FALSE, issues |-> {"not parsed"}]

\* The record of a finished call: which operation, by whom, with which
\* arguments; whether it returned or threw; the result's fields; the code of
\* the remote error it met; the number of remote inserts it issued; the rows
\* it returned; and the notifications it raised.
NoCall ==
    [op |-> "none", caller |-> NoUser, form |-> FormValid, argId |-> NoId,
     outcome |-> "none", success |-> FALSE, message |-> "", id |-> NoId,
     errCode |-> NoCode, inserts |-> 0, data |-> <<>>,
     toastSuccess |-> 0, toastError |-> 0]

\* ------------------------------------------------- the remote store (Supabase)
OkReply == [code |-> "ok", message |-> ""]

\* What an insert can answer: the new row (while the model has room for it)
\* or an error.
InsertReplies ==
    (IF Len(rows) < MaxRows THEN {OkReply} ELSE {}) \cup RemoteErrors

\* What an update or a select can answer before its filter is applied.
QueryReplies == {OkReply} \cup RemoteErrors

\* .eq('id', id).eq('user_id', uid): the rows both filters keep.
MatchById(id, uid) == {i \in 1..Len(rows) : i = id}
MatchByIdAndOwner(id, uid) ==
    {i \in 1..Len(rows) : i = id /\ rows[i].user_id = uid}

WithId(row, i) == [id |-> i] @@ row

\* .eq('user_id', uid).order('created_at', {ascending: false}): the caller's
\* rows, newest first (rows are created in index order).
RECURSIVE OwnedNewestFirst(_, _)
OwnedNewestFirst(n, uid) ==
    IF n = 0 THEN <<>>
    ELSE (IF rows[n].user_id = uid THEN <<WithId(rows[n], n)>> ELSE <<>>)
         \o OwnedNewestFirst(n - 1, uid)

\* ------------------------------------------------------ submitApplicationForm
Falsy(x) == x.t = "undefined" \/ x.v = <<>>

\* /^[^\s@]+@[^\s@]+\.[^\s@]+$/
emailRegex(s) ==
    \E at \in 2..Len(s) : \E dot \in (at + 2)..(Len(s) - 1) :
        /\ s[at] = "@"
        /\ s[dot] = "."
        /\ NoneIn(SubSeq(s, 1, at - 1), SpaceChars \cup {"@"})
        /\ NoneIn(SubSeq(s, at + 1, Len(s)), SpaceChars \cup {"@"})

\* /^[0-9+]+$/
phoneRegex(s) == Len(s) >= 1 /\ AllIn(s, DigitChars \cup {"+"})

\* Step 1 of submitApplicationForm: the message of the first check that
\* fails, or "" when all pass.
InputValidation(formData) ==
    LET personalInfo == formData.personalInfo
    IN  IF \/ Falsy(personalInfo.firstName) \/ Falsy(personalInfo.lastName)
           \/ Falsy(personalInfo.email) \/ Falsy(personalInfo.phone)
        THEN "Missing required fields in personal information."
        ELSE IF ~emailRegex(personalInfo.email.v) THEN "Invalid email format."
        ELSE IF ~phoneRegex(personalInfo.phone.v)
             THEN "Invalid phone number format."
        ELSE ""

\* Step 2: sanitizedPersonalInfo.
Sanitize(personalInfo) ==
    [firstName |-> Str(trim(personalInfo.firstName.v)),
     lastName |-> Str(trim(personalInfo.lastName.v)),
     email |-> Str(toLowerCase(trim(personalInfo.email.v))),
     phone |-> Str(trim(personalInfo.phone.v))]

\* Step 3: the document handed to insert: {...formData, personal_info,
\* status}.  The code puts no user_id in it.
FormDocument(formData) ==
    [user_id |-> NoUser, status |-> "pending",
     personalInfo |-> formData.personalInfo,
     personal_info |-> Sanitize(formData.personalInfo),
     referee |-> formData.referee]

\* The message returned when the insert answers with an error.
FormErrorMessage(err) ==
    IF err.code = "23505" THEN "Duplicate submission detected."
    ELSE "Supabase error: " \o err.message

SubmitApplicationForm ==
    \E formData \in SubmitForms :
        LET call == [NoCall EXCEPT !.op = "submitApplicationForm",
                                   !.caller = user, !.form = formData,
                                   !.outcome = "returned"]
            invalid == InputValidation(formData)
            doc == FormDocument(formData)
        IN  /\ IF invalid # ""
               THEN /\ last' = [call EXCEPT !.message = invalid]
                    /\ UNCHANGED rows
               ELSE \E reply \in InsertReplies :
                      IF reply = OkReply
                      THEN /\ rows' = Append(rows, doc)
                           /\ last' = [call EXCEPT
                                  !.success = TRUE,
                                  !.message = "Application submitted successfully!",
                                  !.id = Len(rows) + 1,
                                  !.inserts = 1]
                      ELSE /\ UNCHANGED rows
                           /\ last' = [call EXCEPT
                                  !.message = FormErrorMessage(reply),
                                  !.errCode = reply.code,
                                  !.inserts = 1]
            /\ UNCHANGED <<user, applications, userApplications, isSubmitting,
                           error, calls, form, parsed>>

\* ---------------------------------------------------------- submitApplication
ApplicationData(uid, formData) ==
    [user_id |-> uid, status |-> "pending",
     personal_info |-> formData.personalInfo,
     referee |-> formData.referee]

\* throw new Error(error.message), caught below: the message is the server's.
ApplicationErrorMessage(err) == err.message

SubmitApplication ==
    \E formData \in SubmitForms :
        LET call == [NoCall EXCEPT !.op = "submitApplication",
                                   !.caller = user, !.form = formData,
                                   !.outcome = "returned"]
            doc == ApplicationData(user, formData)
        IN  /\ IF user = NoUser
               THEN /\ last' = [call EXCEPT
                           !.message = "You must be signed in to submit an application",
                           !.toastError = 1]
                    /\ UNCHANGED rows
               ELSE \E reply \in InsertReplies :
                      IF reply = OkReply
                      THEN /\ rows' = Append(rows, doc)
                           /\ last' = [call EXCEPT
                                  !.success = TRUE,
                                  !.message = "Application submitted successfully",
                                  !.id = Len(rows) + 1,
                                  !.inserts = 1, !.toastSuccess = 1]
                      ELSE /\ UNCHANGED rows
                           /\ last' = [call EXCEPT
                                  !.message = ApplicationErrorMessage(reply),
                                  !.errCode = reply.code,
                                  !.inserts = 1, !.toastError = 1]
            /\ UNCHANGED <<user, applications, userApplications, isSubmitting,
                           error, calls, form, parsed>>

\* ------------------------------------------------------------------ saveDraft
OrEmpty(section) == IF section = NoSection THEN EmptyObject ELSE section

DraftData(uid, formData) ==
    [user_id |-> uid, status |-> "draft",
     personal_info |-> OrEmpty(formData.personalInfo),
     referee |-> OrEmpty(formData.referee)]

\* if (draftId): update the existing draft, else create one.
NeverUpdate(draftId) == FALSE
IsUpdate(draftId) == draftId # NoId

\* The rows saveDraft's update touches.
DraftMatch(id, uid) == MatchByIdAndOwner(id, uid)

SaveDraft ==
    \E formData \in DraftForms : \E draftId \in {NoId} \cup (1..MaxRows) :
        LET call == [NoCall EXCEPT !.op = "saveDraft", !.caller = user,
                                   !.argId = draftId, !.outcome = "threw"]
            draftData == DraftData(user, formData)
            Throw(err) == [call EXCEPT !.message = err.message,
                                       !.errCode = err.code]
        IN  /\ IF user = NoUser
               THEN /\ last' = [call EXCEPT
                           !.message = "You must be signed in to save a draft"]
                    /\ UNCHANGED rows
               ELSE IF IsUpdate(draftId)
               THEN \E reply \in QueryReplies :
                      LET hit == DraftMatch(draftId, user)
                      IN  IF reply # OkReply
                          THEN /\ UNCHANGED rows
                               /\ last' = Throw(reply)
                          ELSE /\ rows' = [i \in 1..Len(rows) |->
                                      IF i \in hit THEN draftData ELSE rows[i]]
                               /\ last' =
                                    IF hit = {}
                                    THEN Throw(NoRowsError)
                                    ELSE [call EXCEPT
                                           !.outcome = "returned",
                                           !.success = TRUE,
                                           !.id = CHOOSE i \in hit : TRUE]
               ELSE \E reply \in InsertReplies :
                      IF reply = OkReply
                      THEN /\ rows' = Append(rows, draftData)
                           /\ last' = [call EXCEPT
                                  !.outcome = "returned", !.success = TRUE,
                                  !.id = Len(rows) + 1,
                                  !.inserts = 1]
                      ELSE /\ UNCHANGED rows
                           /\ last' = [Throw(reply) EXCEPT
                                  !.inserts = 1]
            /\ UNCHANGED <<user, applications, userApplications, isSubmitting,
                           error, calls, form, parsed>>

\* -------------------------------------------------------- getUserApplications
GetUserApplications ==
    LET call == [NoCall EXCEPT !.op = "getUserApplications", !.caller = user,
                               !.outcome = "threw"]
    IN  /\ IF user = NoUser
           THEN last' = [call EXCEPT
                    !.message = "You must be signed in to view applications"]
           ELSE \E reply \in QueryReplies :
                  IF reply # OkReply
                  THEN last' = [call EXCEPT !.message = reply.message,
                                            !.errCode = reply.code]
                  ELSE last' = [call EXCEPT
                           !.outcome = "returned", !.success = TRUE,
                           !.data = OwnedNewestFirst(Len(rows), user)]
        /\ UNCHANGED <<user, rows, applications, userApplications,
                       isSubmitting, error, calls, form, parsed>>

\* --------------------------------------------------------- getApplicationById
\* The rows getApplicationById's select keeps.
ByIdMatch(id, uid) == MatchByIdAndOwner(id, uid)

GetApplicationById ==
    \E applicationId \in 1..MaxRows :
        LET call == [NoCall EXCEPT !.op = "getApplicationById",
                                   !.caller = user, !.argId = applicationId,
                                   !.outcome = "threw"]
        IN  /\ IF user = NoUser
               THEN last' = [call EXCEPT
                        !.message = "You must be signed in to view applications"]
               ELSE \E reply \in QueryReplies :
                      LET hit == ByIdMatch(applicationId, user)
                      IN  IF reply # OkReply
                          THEN last' = [call EXCEPT !.message = reply.message,
                                                    !.errCode = reply.code]
                          ELSE IF hit = {}
                          THEN last' = [call EXCEPT
                                   !.message = NoRowsError.message,
                                   !.errCode = NoRowsError.code]
                          ELSE last' = [call EXCEPT
                                   !.outcome = "returned", !.success = TRUE,
                                   !.id = applicationId,
                                   !.data = <<WithId(rows[applicationId],
                                                     applicationId)>>]
            /\ UNCHANGED <<user, rows, applications, userApplications,
                           isSubmitting, error, calls, form, parsed>>

\* ------------------------------------------------------- the identity provider
SignIn ==
    /\ user = NoUser
    /\ \E u \in Users : user' = u
    /\ UNCHANGED <<rows, applications, userApplications, isSubmitting, error,
                   calls, last, form, parsed>>

SignOut ==
    /\ user # NoUser
    /\ user' = NoUser
    /\ UNCHANGED <<rows, applications, userApplications, isSubmitting, error,
                   calls, last, form, parsed>>

\* ------------------------------------------- useApplicationSubmit (Firestore)
\* What addDoc can end with: the write is acknowledged (while the model has
\* room for the document) or the promise is rejected with an Error.
FirestoreErrors == {"Missing or insufficient permissions."}
Idle == [pc |-> "idle", user |-> NoUser, form |-> FormValid, docId |-> NoId]
Slots == 1..MaxInFlight
InFlight == {s \in Slots : calls[s].pc # "idle"}

\* applicationData: the form with the owner, the status and the metadata.
HookApplicationData(uid, formData) ==
    [userId |-> uid, status |-> "pending",
     personalInfo |-> formData.personalInfo, referee |-> formData.referee]

\* The users/{uid}/applications document.
LinkDocument(uid, docId) ==
    [uid |-> uid, applicationId |-> docId, status |-> "pending"]

\* handleSubmit up to its first await: the identity check, the two state
\* updates, and the call of addDoc(applicationsRef, applicationData).  The
\* code reads isSubmitting nowhere; the model only needs a free slot.
HandleSubmit ==
    \E formData \in HookForms :
        LET call == [NoCall EXCEPT !.op = "handleSubmit", !.caller = user,
                                   !.form = formData]
        IN  IF user = NoUser
            THEN /\ last' = [call EXCEPT
                        !.outcome = "threw",
                        !.message = "You must be signed in to submit an application"]
                 /\ UNCHANGED <<user, rows, applications, userApplications,
                                isSubmitting, error, calls, form, parsed>>
            ELSE /\ \E s \in Slots :
                      /\ calls[s].pc = "idle"
                      /\ \A t \in Slots : t < s => calls[t].pc # "idle"
                      /\ calls' = [calls EXCEPT ![s] =
                             [pc |-> "addDoc", user |-> user,
                              form |-> formData, docId |-> NoId]]
                 /\ isSubmitting' = TRUE
                 /\ error' = NoError
                 /\ UNCHANGED <<user, rows, applications, userApplications,
                                last, form, parsed>>

\* The catch block and the finally block: one error notification, setError,
\* the failure result, setIsSubmitting(false).
HandleSubmitFailed(s, message, nInserts) ==
    /\ error' = message
    /\ isSubmitting' = FALSE
    /\ calls' = [calls EXCEPT ![s] = Idle]
    /\ last' = [NoCall EXCEPT
           !.op = "handleSubmit", !.caller = calls[s].user,
           !.form = calls[s].form, !.outcome = "returned",
           !.message = message, !.inserts = nInserts, !.toastError = 1]

\* The first addDoc settles.  On success the code goes on to the second
\* addDoc, on users/{uid}/applications.
AddDocSettled ==
    \E s \in Slots :
        /\ calls[s].pc = "addDoc"
        /\ \/ /\ Len(applications) < MaxDocs
              /\ applications' = Append(applications,
                     HookApplicationData(calls[s].user, calls[s].form))
              /\ calls' = [calls EXCEPT ![s].pc = "link",
                                        ![s].docId = Len(applications) + 1]
              /\ UNCHANGED <<isSubmitting, error, last>>
           \/ /\ \E message \in FirestoreErrors :
                    HandleSubmitFailed(s, message, 1)
              /\ UNCHANGED applications
        /\ UNCHANGED <<user, rows, userApplications, form, parsed>>

\* The second addDoc settles: the success notification and result, or the
\* catch block; then the finally block.
LinkSettled ==
    \E s \in Slots :
        /\ calls[s].pc = "link"
        /\ \/ /\ userApplications' = Append(userApplications,
                     LinkDocument(calls[s].user, calls[s].docId))
              /\ isSubmitting' = FALSE
              /\ calls' = [calls EXCEPT ![s] = Idle]
              /\ last' = [NoCall EXCEPT
                     !.op = "handleSubmit", !.caller = calls[s].user,
                     !.form = calls[s].form, !.outcome = "returned",
                     !.success = TRUE,
                     !.message = "Application submitted successfully",
                     !.id = calls[s].docId, !.inserts = 2,
                     !.toastSuccess = 1]
              /\ UNCHANGED error
           \/ /\ \E message \in FirestoreErrors :
                    HandleSubmitFailed(s, message, 2)
              /\ UNCHANGED userApplications
        /\ UNCHANGED <<user, rows, applications, form, parsed>>

ResetForm ==
    /\ error' = NoError
    /\ isSubmitting' = FALSE
    /\ UNCHANGED <<user, rows, applications, userApplications, calls, last,
                   form, parsed>>

\* ------------------------------------------------------------ specifications
Init ==
    /\ user = NoUser
    /\ rows = <<>>
    /\ applications = <<>>
    /\ userApplications = <<>>
    /\ isSubmitting = FALSE
    /\ error = NoError
    /\ calls = [s \in Slots |-> Idle]
    /\ last = NoCall
    /\ form = FormValid
    /\ parsed = NotParsed

\* The relational binding: every function over the Supabase table.
NextDb ==
    \/ SignIn
    \/ SignOut
    \/ SubmitApplicationForm
    \/ SubmitApplication
    \/ SaveDraft
    \/ GetUserApplications
    \/ GetApplicationById

SpecDb == Init /\ [][NextDb]_vars

\* The two submit functions of the relational binding.
NextSubmit ==
    \/ SignIn
    \/ SignOut
    \/ SubmitApplicationForm
    \/ SubmitApplication

SpecSubmit == Init /\ [][NextSubmit]_vars

\* Drafts and reads: any sequence of saveDraft, getUserApplications and
\* getApplicationById by any users.
NextDraft ==
    \/ SignIn
    \/ SignOut
    \/ SaveDraft
    \/ GetUserApplications
    \/ GetApplicationById

SpecDraft == Init /\ [][NextDraft]_vars

\* The document-store binding: one instance of the hook.
NextHook ==
    \/ SignIn
    \/ SignOut
    \/ HandleSubmit
    \/ AddDocSettled
    \/ LinkSettled
    \/ ResetForm

SpecHook == Init /\ [][NextHook]_vars

\* The schema alone: any form of Forms, parsed once.
InitSchema ==
    /\ user = NoUser
    /\ rows = <<>>
    /\ applications = <<>>
    /\ userApplications = <<>>
    /\ isSubmitting = FALSE
    /\ error = NoError
    /\ calls = [s \in Slots |-> Idle]
    /\ last = NoCall
    /\ form \in Forms
    /\ parsed = NotParsed

Parse ==
    /\ parsed = NotParsed
    /\ parsed' = applicationSchema(form)
    /\ UNCHANGED <<user, rows, applications, userApplications, isSubmitting,
                   error, calls, last, form>>

NextSchema == Parse

SpecSchema == InitSchema /\ [][NextSchema]_vars

\* Both bindings side by side.  They share the identity provider only, so
\* the claims are checked under the specification of the binding they read.
Next == NextDb \/ NextHook

Spec == Init /\ [][Next]_vars

\* ==================================================================== claims
SubmitOps == {"handleSubmit", "submitApplication", "submitApplicationForm"}
NotAuthenticatedMessage == "You must be signed in to submit an application"

\* C1: at most one submission of a form instance is in flight: the number of
\* handleSubmit invocations whose remote write has not resolved never
\* exceeds one.
C1_AtMostOneInFlight == Cardinality(InFlight) <= 1

\* C2: a submit entry point called with no current user issues no remote
\* insert and returns (does not throw) a result with success = false and the
\* not-authenticated message.
C2_NoUserRefused ==
    (last.op \in SubmitOps /\ last.caller = NoUser)
        => /\ last.inserts = 0
           /\ last.outcome = "returned"
           /\ ~last.success
           /\ last.message = NotAuthenticatedMessage

\* C3: owner isolation.  No step changes a row whose user_id is not the
\* caller's; every row a call returns is the caller's; and saveDraft with the
\* id of another user's row changes nothing and throws.
C3_OwnerIsolation ==
    [][/\ Len(rows') >= Len(rows)
       /\ \A i \in 1..Len(rows) :
            rows'[i] # rows[i] => rows[i].user_id = last'.caller
       /\ \A k \in 1..Len(last'.data) : last'.data[k].user_id = last'.caller
       /\ (/\ last' # last
           /\ last'.op = "saveDraft"
           /\ last'.argId \in 1..Len(rows)
           /\ rows[last'.argId].user_id # last'.caller)
            => /\ rows' = rows
               /\ last'.outcome = "threw"
               /\ ~last'.success]_vars

\* C3 witness: a signed-in user's saveDraft named another user's row and
\* ended with the no-rows error.
C3_Witness ==
    /\ last.op = "saveDraft"
    /\ last.caller \in Users
    /\ last.argId \in 1..Len(rows)
    /\ rows[last.argId].user_id \in Users \ {last.caller}
    /\ last.outcome = "threw"
    /\ last.errCode = NoRowsError.code

\* C4: draft upsert.  A saveDraft without draftId that returns has added
\* exactly one row, a draft owned by the caller, and returns its id; a
\* saveDraft with a draftId that returns has left the number of rows as it
\* was, returns the id passed in, and changed that row alone; and a saveDraft
\* by the signed-in owner of the row it names fails only on a remote error.
C4_DraftUpsert ==
    [][/\ (last' # last /\ last'.op = "saveDraft" /\ last'.outcome = "returned")
            => IF last'.argId = NoId
               THEN /\ Len(rows') = Len(rows) + 1
                    /\ SubSeq(rows', 1, Len(rows)) = rows
                    /\ last'.id = Len(rows')
                    /\ rows'[last'.id].status = "draft"
                    /\ rows'[last'.id].user_id = last'.caller
               ELSE /\ Len(rows') = Len(rows)
                    /\ last'.id = last'.argId
                    /\ last'.id \in 1..Len(rows)
                    /\ rows[last'.id].user_id = last'.caller
                    /\ rows'[last'.id].status = "draft"
                    /\ rows'[last'.id].user_id = last'.caller
                    /\ \A i \in 1..Len(rows) :
                         i # last'.id => rows'[i] = rows[i]
       /\ (/\ last' # last
           /\ last'.op = "saveDraft"
           /\ last'.outcome = "threw"
           /\ last'.caller \in Users
           /\ last'.argId \in 1..Len(rows)
           /\ rows[last'.argId].user_id = last'.caller)
            => last'.errCode \in ErrorCodes]_vars

\* C4 witness: a draft was created by one call and later updated in place by
\* a saveDraft that was given its id (the row holds a section no new draft
\* of the other form would hold, or the reverse).
C4_Witness ==
    /\ last.op = "saveDraft"
    /\ last.outcome = "returned"
    /\ last.argId # NoId
    /\ last.id = last.argId
    /\ Len(rows) = 1
    /\ rows[last.id].status = "draft"
    /\ rows[last.id].user_id = last.caller
    /\ rows[last.id].personal_info # EmptyObject

\* The message an entry point of the relational binding returns for a
\* remote error.
ErrorMessageOf(op, err) ==
    IF op = "submitApplicationForm" THEN FormErrorMessage(err)
    ELSE ApplicationErrorMessage(err)

\* C5: the result of a submit whose insert failed with code 23505 differs
\* from the result the same entry point gives for every remote failure with
\* another code.
C5_DuplicateDistinguished ==
    (last.op \in {"submitApplicationForm", "submitApplication"}
        /\ last.errCode = "23505")
        => \A err \in RemoteErrors :
              err.code # "23505" => ErrorMessageOf(last.op, err) # last.message

\* C6: a form that violates applicationSchema is never handed to a remote
\* insert by a submit entry point.
C6_InvalidNeverInserted ==
    /\ (last.op \in SubmitOps /\ ~applicationSchema(last.form).success)
           => last.inserts = 0
    /\ \A s \in InFlight : applicationSchema(calls[s].form).success

\* C7: a submission attempt that has ended raised exactly one notification:
\* one success notification if it succeeded, one error notification if not.
C7_ExactlyOneNotification ==
    (last.op \in SubmitOps)
        => IF last.success
           THEN last.toastSuccess = 1 /\ last.toastError = 0
           ELSE last.toastError = 1 /\ last.toastSuccess = 0

\* The owner and the status of the record a submit stored under id.
StoredOwner(op, id) ==
    IF op = "handleSubmit" THEN applications[id].userId ELSE rows[id].user_id
StoredStatus(op, id) ==
    IF op = "handleSubmit" THEN applications[id].status ELSE rows[id].status

\* C8: after a submit by user u returned success with applicationId i, the
\* stored record i is owned by u and has status pending.
C8_StoredOwnerPending ==
    (last.op \in SubmitOps /\ last.success /\ last.caller # NoUser)
        => /\ StoredOwner(last.op, last.id) = last.caller
           /\ StoredStatus(last.op, last.id) = "pending"

\* A handleSubmit attempt enters submitting / resolves in this step.
AttemptStarts == \E s \in Slots : calls[s].pc = "idle" /\ calls'[s].pc # "idle"
AttemptResolves == \E s \in Slots : calls[s].pc # "idle" /\ calls'[s].pc = "idle"

\* C9: an attempt that starts clears the error; when an attempt resolves,
\* isSubmitting is false and error is set exactly when its result has
\* success = false.
C9_StateMachine ==
    [][/\ AttemptStarts => (isSubmitting' /\ error' = NoError)
       /\ AttemptResolves
            => /\ ~isSubmitting'
               /\ (error' # NoError) <=> ~last'.success]_vars

\* C10: a record whose referee email equals the applicant's fails validation
\* with a violation at referee.email, whatever the sections hold.
C10_SameEmailReported ==
    (parsed # NotParsed /\ form.referee.email = form.personalInfo.email)
        => ~parsed.success /\ "referee.email" \in parsed.issues

\* Every field has its declared type and the enum field holds a member.
WellTyped(data) ==
    /\ data.personalInfo.firstName.t = "string"
    /\ data.personalInfo.lastName.t = "string"
    /\ data.personalInfo.email.t = "string"
    /\ data.personalInfo.phone.t = "string"
    /\ data.personalInfo.gender \in GenderEnum
    /\ data.referee.name.t = "string"
    /\ data.referee.email.t = "string"

\* C10 as amended: a record whose referee email equals the applicant's fails
\* validation; the violation at referee.email is reported when every field
\* has its declared type and enum value, whether or not the length and
\* pattern rules of the sections hold.
C10_SameEmailReportedWhenTyped ==
    (parsed # NotParsed /\ form.referee.email = form.personalInfo.email)
        => /\ ~parsed.success
           /\ WellTyped(form) => "referee.email" \in parsed.issues

\* C10 witness: both emails are the same well-formed address, a section
\* fails a length rule, and the violation at referee.email is reported.
C10_Witness ==
    /\ parsed # NotParsed
    /\ form.referee.email = form.personalInfo.email
    /\ form.referee.email = Str(S_mailA)
    /\ WellTyped(form)
    /\ "personalInfo.firstName" \in parsed.issues
    /\ "referee.email" \in parsed.issues

\* C11: submission is atomic in the document-store binding: when a
\* handleSubmit attempt resolves with success = false, the applications
\* collection holds no document that attempt created.
C11_FailedSubmitLeavesNoDocument ==
    [][\A s \in Slots :
          (calls[s].pc # "idle" /\ calls'[s].pc = "idle" /\ ~last'.success)
              => calls[s].docId \notin 1..Len(applications')]_vars

\* The statuses a record has once it is past the draft stage.
SubmittedStatuses == {"pending", "approved", "rejected"}

\* C12: status never regresses: no step changes a row whose status is
\* pending, approved or rejected back to draft, and a saveDraft that is given
\* a draftId changes only rows whose status is draft.
C12_StatusNeverRegresses ==
    [][/\ Len(rows') >= Len(rows)
       /\ \A i \in 1..Len(rows) :
            /\ rows[i].status \in SubmittedStatuses
                  => rows'[i].status # "draft"
            /\ (last'.op = "saveDraft" /\ rows'[i] # rows[i])
                  => rows[i].status = "draft"]_vars

====
